---- MODULE Spec2Model ----
(***************************************************************************)
(* Turn orchestration of the AnomalyGPT chat application.                  *)
(*                                                                         *)
(*   llm.py   the graph retrieve -> assistant -> (tools -> assistant)*,    *)
(*            compiled with one in-memory checkpointer                     *)
(*   app.py   the Streamlit script: one run per submitted prompt, every    *)
(*            browser session running it against the same compiled graph   *)
(*            and the same thread_id '1'                                   *)
(*   utils.py the five tools the model may call                            *)
(*                                                                         *)
(* The language model, the vector index and the user are the environment:  *)
(* their answers are drawn from small sets.                                *)
(***************************************************************************)
EXTENDS Integers, Sequences, FiniteSets, TLC

\* ------------------------------------------------------------------ bounds
\* Prompts submitted over all browser sessions together.
MaxTurns == 2
\* The same, when the model asks for a tool in every response.
MaxLoopingTurns == 1
\* Tool calls the model may put in one response.
MaxCalls == 2
\* Tool calls a model that chooses freely issues over all sessions together.
MaxToolCalls == 2

\* --------------------------------------------------------------- constants
\* llm.py:93  similarity_search(prompt, k = 4)
K == 4
\* app.py:8  the config carries only thread_id, so the graph runs under the
\* framework's default recursion limit of 25 super-steps.
RecursionLimit == 25

\* app.py: every browser session runs the same script. Two of them, named in
\* the order of their first prompt.
Sessions == {"A", "B"}

\* Python's None, where an identifier or a path is expected.
None == <<>>
\* A local variable not assigned yet.
Unbound == <<None>>

VARIABLES
    llm,               \* llm.py:38  the kind of model behind the endpoint
    memory,            \* llm.py:121  latest checkpoint of thread_id '1'
    state,             \* state[s]: ContextState of the run session s started last
    pc,                \* pc[s]: "idle", the node about to run, or "done"
    trace,             \* trace[s]: the nodes the current run has executed
    retrieved_docs,    \* retrieved_docs[s]: llm.py:93, Unbound before the search
    outcomes,          \* outcomes[s]: how the finished runs of s ended
    callSeq,           \* callSeq[s]: tool-call ids issued to s so far
    ui,                \* ui[s]: st.session_state.messages
    current_img_path   \* current_img_path[s]: st.session_state.current_img_path

vars == <<llm, memory, state, pc, trace, retrieved_docs, outcomes, callSeq, ui,
          current_img_path>>

\* ---------------------------------------------------------------- messages
HumanMessage(s) ==
    [type |-> "human", name |-> "", tool_calls |-> <<>>, tool_call_id |-> None,
     status |-> "", content |-> <<"prompt", s>>]

AIMessage(calls) ==
    [type |-> "ai", name |-> "", tool_calls |-> calls, tool_call_id |-> None,
     status |-> "", content |-> <<"text">>]

ToolMessage(content, name, id, status) ==
    [type |-> "tool", name |-> name, tool_calls |-> <<>>, tool_call_id |-> id,
     status |-> status, content |-> content]

Last(seq) == seq[Len(seq)]

Min(a, b) == IF a < b THEN a ELSE b

\* ------------------------------------------------------------------- tools
\* llm.py:31-37
tools ==
    {"query_anomalies", "query_analog_sensor_importances",
     "query_digital_sensor_activations", "update_analog_sensor_plot_for_user",
     "update_digital_sensor_plot_for_user"}

\* app.py:73-76
PlotTools ==
    {"update_analog_sensor_plot_for_user", "update_digital_sensor_plot_for_user"}

\* utils.py:13-47  the range only filters rows: outside the data it selects
\* none and the tool returns an empty list.
query_anomalies(range) ==
    [raised |-> FALSE,
     value |-> IF range = "valid" THEN <<"records">> ELSE <<"no_records">>]

\* utils.py:50-84  an aggregate select always yields one row.
query_analog_sensor_importances(range) ==
    [raised |-> FALSE,
     value |-> IF range = "valid" THEN <<"sums">> ELSE <<"nulls">>]

\* utils.py:87-119
query_digital_sensor_activations(range) ==
    [raised |-> FALSE,
     value |-> IF range = "valid" THEN <<"sums">> ELSE <<"nulls">>]

\* utils.py:122-208  with no row in range df.plot has no numeric data and
\* raises; otherwise the figure is saved under a fresh uuid4 name (the call's
\* id stands for it) and the path is returned.
update_analog_sensor_plot_for_user(range, uuid) ==
    IF range = "valid"
    THEN [raised |-> FALSE, value |-> <<"./imgs", uuid>>]
    ELSE [raised |-> TRUE, value |-> <<"TypeError">>]

\* utils.py:211-287
update_digital_sensor_plot_for_user(range, uuid) ==
    IF range = "valid"
    THEN [raised |-> FALSE, value |-> <<"./imgs", uuid>>]
    ELSE [raised |-> TRUE, value |-> <<"TypeError">>]

\* Dispatch of one call by its declared name.
invoke(call) ==
    CASE call.name = "query_anomalies" -> query_anomalies(call.range)
      [] call.name = "query_analog_sensor_importances" ->
            query_analog_sensor_importances(call.range)
      [] call.name = "query_digital_sensor_activations" ->
            query_digital_sensor_activations(call.range)
      [] call.name = "update_analog_sensor_plot_for_user" ->
            update_analog_sensor_plot_for_user(call.range, call.id)
      [] call.name = "update_digital_sensor_plot_for_user" ->
            update_digital_sensor_plot_for_user(call.range, call.id)

\* ---------------------------------------------------------------- ToolNode
\* llm.py:110  ToolNode(tools) keeps handle_tool_errors at its default: an
\* exception of a tool becomes an error ToolMessage for that call.
_run_one(call) ==
    LET r == invoke(call)
    IN  IF r.raised
        THEN ToolMessage(<<"Error", r.value>>, call.name, call.id, "error")
        ELSE ToolMessage(r.value, call.name, call.id, "success")

\* The orders in which n parallel executions can complete.
CompletionOrders(n) ==
    {f \in [1..n -> 1..n] : \A i, j \in 1..n : i # j => f[i] # f[j]}

\* ToolNode, were a tool's exception left to propagate: the step raises and
\* appends nothing.
ToolNode_Raises(calls, order) ==
    [raised |-> \E i \in 1..Len(calls) : invoke(calls[i]).raised,
     messages |-> [i \in 1..Len(calls) |-> _run_one(calls[i])]]

\* ToolNode, were the outputs collected as the executions complete.
ToolNode_CompletionOrder(calls, order) ==
    [raised |-> FALSE,
     messages |-> [k \in 1..Len(calls) |-> _run_one(calls[order[k]])]]

\* llm.py:110  the calls of the latest assistant message run in parallel and
\* their outputs are gathered in the order of the call list, whatever the order
\* of completion.
ToolNode(calls, order) ==
    [raised |-> FALSE,
     messages |-> [i \in 1..Len(calls) |-> _run_one(calls[i])]]

\* The on_tool_end events of one tools step, in completion order: one per call
\* that returned (a call that raised ends with on_tool_error instead).
on_tool_end(calls, order) ==
    LET done == [k \in 1..Len(calls) |-> calls[order[k]]]
        ok(c) == ~invoke(c).raised
        returned == SelectSeq(done, ok)
    IN  [k \in 1..Len(returned) |->
            [name |-> returned[k].name, content |-> invoke(returned[k]).value]]

\* app.py:67-77  the path of a plot tool's output replaces current_img_path;
\* token events and other tools leave it alone.
RECURSIVE stream_tokens(_, _)
stream_tokens(path, events) ==
    IF events = <<>>
    THEN path
    ELSE stream_tokens(IF Head(events).name \in PlotTools
                       THEN Head(events).content
                       ELSE path,
                       Tail(events))

\* The script without its reset: the path of an earlier run stays.
ResetImagePath_Keep(path) == path

\* app.py:80
ResetImagePath(path) == None

\* ------------------------------------------------------------------- graph
\* The messages channel, were it a plain channel as context is: a node's
\* return value replaces what was there.
add_messages_Overwrite(left, right) == right

\* llm.py:84  ContextState extends MessagesState: what a node returns under
\* 'messages' is appended to the messages already there.
add_messages(left, right) == left \o right

\* llm.py:112
EntryNode == "retrieve"
\* llm.py:113
AfterRetrieve == "assistant"
\* llm.py:118
AfterTools == "assistant"

\* A routing that looks through the whole history for tool calls.
tools_condition_AnyMessage(st) ==
    IF \E i \in 1..Len(st.messages) : Len(st.messages[i].tool_calls) > 0
    THEN "tools" ELSE "__end__"

\* A routing with its two branches exchanged.
tools_condition_Inverted(st) ==
    IF Len(Last(st.messages).tool_calls) > 0 THEN "__end__" ELSE "tools"

\* llm.py:114-117  tools_condition looks at the latest message only.
tools_condition(st) ==
    IF Len(Last(st.messages).tool_calls) > 0 THEN "tools" ELSE "__end__"

\* llm.py:75-81  context[0] needs at least one document.
_write_context_to_file(context) ==
    IF Len(context) >= 1 THEN "written" ELSE "IndexError"

\* llm.py:93  up to k documents, the best first: no match, or k of them.
similarity_search ==
    {[i \in 1..n |-> <<"doc", i>>] : n \in {0, K}}

\* llm.py:38  the chat endpoint rejects a history in which a tool call of an
\* assistant message has no tool message after it.
Accepts(messages) ==
    \A i \in 1..Len(messages) :
        \A c \in 1..Len(messages[i].tool_calls) :
            \E j \in (i+1)..Len(messages) :
                /\ messages[j].type = "tool"
                /\ messages[j].tool_call_id = messages[i].tool_calls[c].id

\* What the model may ask for in one call.
Requests ==
    {[name |-> "query_anomalies", range |-> "valid"],
     [name |-> "update_analog_sensor_plot_for_user", range |-> "valid"],
     [name |-> "update_analog_sensor_plot_for_user", range |-> "out_of_range"]}

\* llm.py:38  bind_tools(tools, parallel_tool_calls=True): a response carries
\* zero or more calls. The model is either one that chooses freely among the
\* requests, or one that asks for a tool in every response.
Responses(model, issued) ==
    IF model = "insistent"
    THEN {<<[name |-> "query_anomalies", range |-> "valid"]>>}
    ELSE UNION {[1..n -> Requests] :
                    n \in 0..Min(MaxCalls, MaxToolCalls - issued)}

\* The endpoint gives every call an identifier of its own.
IssueIds(s, calls) ==
    [i \in 1..Len(calls) |->
        [id |-> <<s, callSeq[s] + i>>, name |-> calls[i].name,
         range |-> calls[i].range]]

Turns(s) == Len(outcomes[s]) + (IF pc[s] = "idle" THEN 0 ELSE 1)

RECURSIVE Submitted(_)
Submitted(S) ==
    IF S = {} THEN 0
    ELSE LET x == CHOOSE y \in S : TRUE IN Turns(x) + Submitted(S \ {x})

RECURSIVE Issued(_)
Issued(S) ==
    IF S = {} THEN 0
    ELSE LET x == CHOOSE y \in S : TRUE IN callSeq[x] + Issued(S \ {x})

Ended(s, how) ==
    /\ pc' = [pc EXCEPT ![s] = "idle"]
    /\ outcomes' = [outcomes EXCEPT ![s] = Append(@, how)]

\* The step loop of the compiled graph: the run ends at END, stops with
\* GraphRecursionError once RecursionLimit super-steps have run and a node is
\* still due, and otherwise goes on to the next node.
Goto(s, next, tr) ==
    IF next = "__end__"
    THEN pc' = [pc EXCEPT ![s] = "done"] /\ UNCHANGED outcomes
    ELSE IF Len(tr) >= RecursionLimit
         THEN Ended(s, "GraphRecursionError")
         ELSE pc' = [pc EXCEPT ![s] = next] /\ UNCHANGED outcomes

\* ----------------------------------------------------------------- actions
Init ==
    /\ llm \in {"free", "insistent"}
    /\ memory = [messages |-> <<>>, context |-> <<>>]
    /\ state = [s \in Sessions |-> [messages |-> <<>>, context |-> <<>>]]
    /\ pc = [s \in Sessions |-> "idle"]
    /\ trace = [s \in Sessions |-> <<>>]
    /\ retrieved_docs = [s \in Sessions |-> Unbound]
    /\ outcomes = [s \in Sessions |-> <<>>]
    /\ callSeq = [s \in Sessions |-> 0]
    \* app.py:44-45
    /\ ui = [s \in Sessions |->
                <<[role |-> "assistant", type |-> "text", content |-> "greeting"]>>]
    /\ current_img_path = [s \in Sessions |-> None]

\* app.py:57-84 up to the first event of the stream: the prompt is shown, the
\* image path reset, and the graph loads the latest checkpoint of thread '1',
\* appends the prompt and saves the input checkpoint.
Submit(s) ==
    /\ pc[s] = "idle"
    /\ s = "B" => Turns("A") > 0
    /\ Submitted(Sessions) <
            (IF llm = "insistent" THEN MaxLoopingTurns ELSE MaxTurns)
    /\ LET st == [messages |-> add_messages(memory.messages, <<HumanMessage(s)>>),
                  context |-> memory.context]
       IN  /\ state' = [state EXCEPT ![s] = st]
           /\ memory' = st
    /\ ui' = [ui EXCEPT ![s] =
                Append(@, [role |-> "user", type |-> "text", content |-> "prompt"])]
    /\ current_img_path' =
            [current_img_path EXCEPT ![s] = ResetImagePath(@)]
    /\ pc' = [pc EXCEPT ![s] = EntryNode]
    /\ trace' = [trace EXCEPT ![s] = <<>>]
    /\ retrieved_docs' = [retrieved_docs EXCEPT ![s] = Unbound]
    /\ UNCHANGED <<llm, outcomes, callSeq>>

\* llm.py:88-95
retrieve(s) ==
    /\ pc[s] = "retrieve"
    /\ \E docs \in similarity_search :
        /\ retrieved_docs' = [retrieved_docs EXCEPT ![s] = docs]
        /\ IF _write_context_to_file(docs) = "IndexError"
           THEN /\ Ended(s, "IndexError")
                /\ UNCHANGED <<state, memory, trace>>
           ELSE LET st == [state[s] EXCEPT !.context = docs]
                    tr == Append(trace[s], "retrieve")
                IN  /\ state' = [state EXCEPT ![s] = st]
                    /\ memory' = st
                    /\ trace' = [trace EXCEPT ![s] = tr]
                    /\ Goto(s, AfterRetrieve, tr)
    /\ UNCHANGED <<llm, callSeq, ui, current_img_path>>

\* llm.py:98-103  the model answers: one message appended, then the
\* conditional edge.
assistant(s) ==
    /\ pc[s] = "assistant"
    /\ Accepts(state[s].messages)
    /\ \E calls \in Responses(llm, Issued(Sessions)) :
        LET st == [state[s] EXCEPT
                      !.messages =
                          add_messages(@, <<AIMessage(IssueIds(s, calls))>>)]
            tr == Append(trace[s], "assistant")
        IN  /\ state' = [state EXCEPT ![s] = st]
            /\ memory' = st
            /\ trace' = [trace EXCEPT ![s] = tr]
            /\ callSeq' = [callSeq EXCEPT ![s] = @ + Len(calls)]
            /\ Goto(s, tools_condition(st), tr)
    /\ UNCHANGED <<llm, retrieved_docs, ui, current_img_path>>

\* llm.py:103  llm.invoke raises because the endpoint refuses the history: the
\* exception ends the run and the script. (A network failure at this point
\* leaves what Cancel leaves.)
assistant_raises(s) ==
    /\ pc[s] = "assistant"
    /\ ~Accepts(state[s].messages)
    /\ Ended(s, "APIError")
    /\ UNCHANGED <<llm, memory, state, trace, retrieved_docs, callSeq, ui,
                   current_img_path>>

\* llm.py:110 and app.py:72-77  one tools step, and the stream's on_tool_end
\* events as the script handles them.
tools_node(s) ==
    /\ pc[s] = "tools"
    /\ LET calls == Last(state[s].messages).tool_calls
       IN  \E order \in CompletionOrders(Len(calls)) :
            LET out == ToolNode(calls, order)
                st == [state[s] EXCEPT
                          !.messages = add_messages(@, out.messages)]
                tr == Append(trace[s], "tools")
            IN  IF out.raised
                THEN /\ Ended(s, "ToolException")
                     /\ UNCHANGED <<state, memory, trace, current_img_path>>
                ELSE /\ state' = [state EXCEPT ![s] = st]
                     /\ memory' = st
                     /\ trace' = [trace EXCEPT ![s] = tr]
                     /\ current_img_path' =
                            [current_img_path EXCEPT ![s] =
                                stream_tokens(@, on_tool_end(calls, order))]
                     /\ Goto(s, AfterTools, tr)
    /\ UNCHANGED <<llm, retrieved_docs, callSeq, ui>>

\* app.py:85-95  the stream is exhausted: the text is kept, and the image if a
\* path was recorded.
ShowResult(s) ==
    /\ pc[s] = "done"
    /\ ui' = [ui EXCEPT ![s] =
                Append(@, [role |-> "assistant", type |-> "text",
                           content |-> "response"])
                \o (IF current_img_path[s] # None
                    THEN <<[role |-> "assistant", type |-> "image",
                            content |-> current_img_path[s]]>>
                    ELSE <<>>)]
    /\ Ended(s, "done")
    /\ UNCHANGED <<llm, memory, state, trace, retrieved_docs, callSeq,
                   current_img_path>>

\* app.py:84  the script run is stopped while write_stream is consuming the
\* stream (the user stops it, sends another prompt or leaves): the run goes no
\* further and whatever it has checkpointed stays.
Cancel(s) ==
    /\ pc[s] \in {"retrieve", "assistant", "tools"}
    /\ Ended(s, "cancelled")
    /\ UNCHANGED <<llm, memory, state, trace, retrieved_docs, callSeq, ui,
                   current_img_path>>

Next ==
    \E s \in Sessions :
        \/ Submit(s)
        \/ retrieve(s)
        \/ assistant(s)
        \/ assistant_raises(s)
        \/ tools_node(s)
        \/ ShowResult(s)
        \/ Cancel(s)

Spec == Init /\ [][Next]_vars

\* ------------------------------------------------------------ vocabulary
\* The position of the prompt of the current turn: the last human message.
TurnStart(messages) ==
    CHOOSE i \in 0..Len(messages) :
        /\ i > 0 => messages[i].type = "human"
        /\ \A j \in (i+1)..Len(messages) : messages[j].type # "human"

\* The tool-result messages answering the call `id`.
Answers(messages, id) ==
    {j \in 1..Len(messages) :
        messages[j].type = "tool" /\ messages[j].tool_call_id = id}

\* Every tool call of every assistant message has exactly one result.
Matched(messages) ==
    \A i \in 1..Len(messages) :
        \A c \in 1..Len(messages[i].tool_calls) :
            Cardinality(Answers(messages, messages[i].tool_calls[c].id)) = 1

ToolRounds(tr) == Len(SelectSeq(tr, LAMBDA n : n = "tools"))

\* Session s has a run that ended at END and whose result the script has shown.
Shown(s) ==
    pc[s] = "idle" /\ outcomes[s] # <<>> /\ Last(outcomes[s]) = "done"

\* The entries the script has added to the page since the last prompt.
TurnEntries(s) ==
    LET u == ui[s]
        p == CHOOSE i \in 1..Len(u) :
                /\ i > 1 => u[i].role = "user"
                /\ \A j \in (i+1)..Len(u) : u[j].role # "user"
    IN  SubSeq(u, p + 1, Len(u))

TurnImages(s) == SelectSeq(TurnEntries(s), LAMBDA e : e.type = "image")

\* The messages of the current turn of s, after its prompt.
TurnMessages(s) ==
    SubSeq(state[s].messages, TurnStart(state[s].messages) + 1,
           Len(state[s].messages))

\* The paths the plot tools returned in the current turn of s.
TurnPlots(s) ==
    LET m == TurnMessages(s)
    IN  {m[i].content : i \in {j \in 1..Len(m) :
            m[j].type = "tool" /\ m[j].name \in PlotTools
                /\ m[j].status = "success"}}

\* The current turn of s has a response asking for a plot tool.
PlotRequested(s) ==
    LET m == TurnMessages(s)
    IN  \E i \in 1..Len(m) : \E c \in 1..Len(m[i].tool_calls) :
            m[i].tool_calls[c].name \in PlotTools

\* Session s takes a step out of node n that is not a cancellation.
StepsOut(s, n) ==
    /\ pc[s] = n
    /\ pc'[s] # n
    /\ outcomes'[s] # Append(outcomes[s], "cancelled")

\* ------------------------------------------------------------------ claims
\* C1: whenever the assistant node is about to invoke the model, every tool
\* call of every earlier assistant message in the history it passes has exactly
\* one tool-result message with the call's identifier.
C1_CallsMatchedAtInvocation ==
    \A s \in Sessions : pc[s] = "assistant" => Matched(state[s].messages)

\* C2: the step of the assistant node goes to END when the message it appended
\* carries no tool call and to the tools node when it carries one or more,
\* whatever the context, the earlier messages and the session.
C2_RoutingByLatestMessage ==
    [][\A s \in Sessions :
        (pc[s] = "assistant" /\ trace'[s] = Append(trace[s], "assistant")) =>
            LET m == Last(state'[s].messages)
            IN  /\ m.type = "ai"
                /\ m.tool_calls = <<>> => pc'[s] = "done"
                /\ m.tool_calls # <<>> => pc'[s] = "tools"]_vars

\* C2 witness: a run at END after a response without calls, in a history that
\* holds an earlier response with calls and a context.
C2_Witness ==
    \E s \in Sessions :
        /\ pc[s] = "done"
        /\ Last(state[s].messages).tool_calls = <<>>
        /\ state[s].context # <<>>
        /\ \E i \in 1..Len(state[s].messages) :
                state[s].messages[i].tool_calls # <<>>

\* C3: a tools step over a round in which a call raises still appends one
\* result per call, an error result for each call that raised and the tool's
\* output for each other call, and (short of the recursion limit) the run goes
\* on to the assistant node.
C3_FailedCallGetsErrorResult ==
    [][\A s \in Sessions :
        LET calls == Last(state[s].messages).tool_calls
            before == Len(state[s].messages)
        IN  (/\ StepsOut(s, "tools")
             /\ \E i \in 1..Len(calls) : invoke(calls[i]).raised) =>
                /\ Len(state'[s].messages) = before + Len(calls)
                /\ \A i \in 1..Len(calls) :
                    LET r == state'[s].messages[before + i]
                    IN  /\ r.type = "tool"
                        /\ r.tool_call_id = calls[i].id
                        /\ IF invoke(calls[i]).raised
                           THEN r.status = "error" /\ r.content[1] = "Error"
                           ELSE /\ r.status = "success"
                                /\ r.content = invoke(calls[i]).value
                /\ Len(trace[s]) + 1 < RecursionLimit => pc'[s] = "assistant"]_vars

\* C3 witness: the assistant node is due after a round of two calls of which
\* one raised and the other returned.
C3_Witness ==
    \E s \in Sessions :
        LET m == state[s].messages
        IN  /\ pc[s] = "assistant"
            /\ Len(m) >= 3
            /\ Len(m[Len(m) - 2].tool_calls) = 2
            /\ {m[Len(m) - 1].status, m[Len(m)].status} = {"error", "success"}

\* C4: when the similarity search returns no document, retrieve does not fail:
\* the run goes on with an empty context.
C4_EmptySearchDoesNotFail ==
    \A s \in Sessions :
        retrieved_docs[s] = <<>> =>
            /\ ~(pc[s] = "idle" /\ outcomes[s] # <<>>
                    /\ Last(outcomes[s]) = "IndexError")
            /\ pc[s] \in {"assistant", "tools", "done"} =>
                    state[s].context = <<>>

\* C5: the tool-execution rounds of one turn stay within the step limit of 10.
C5_ToolRoundsWithinStepLimit ==
    \A s \in Sessions : ToolRounds(trace[s]) <= 10

\* C6: when the session's previous turn was cancelled and no other session
\* has used the application, the history passed to the next model invocation
\* holds no tool call without its result.
C6_NoDanglingCallAfterCancel ==
    \A s \in Sessions :
        (/\ pc[s] = "assistant"
         /\ outcomes[s] # <<>> /\ Last(outcomes[s]) = "cancelled"
         /\ \A o \in Sessions \ {s} : Turns(o) = 0) =>
            \A i \in 1..Len(state[s].messages) :
                \A c \in 1..Len(state[s].messages[i].tool_calls) :
                    Answers(state[s].messages,
                            state[s].messages[i].tool_calls[c].id) # {}

\* C7: at no time are two turns in progress on the conversation state of
\* thread_id '1'.
C7_OneTurnAtATime ==
    Cardinality({s \in Sessions : pc[s] # "idle"}) <= 1

\* C8 as stated: a finished turn in which the model asked for a plot tool has
\* shown exactly one image, the output of a plot call of that turn.
C8_OneImagePerPlotRequest ==
    \A s \in Sessions :
        (Shown(s) /\ PlotRequested(s)) =>
            /\ Len(TurnImages(s)) = 1
            /\ TurnImages(s)[1].content \in TurnPlots(s)

\* C8 as amended: a finished turn in which a plot call returned has shown
\* exactly one image, the path a plot call of that turn returned, whatever else
\* the model asked for; a finished turn in which no plot call returned has
\* shown none.
C8_OneImagePerPlottingTurn ==
    \A s \in Sessions :
        Shown(s) =>
            IF TurnPlots(s) # {}
            THEN /\ Len(TurnImages(s)) = 1
                 /\ TurnImages(s)[1].content \in TurnPlots(s)
            ELSE TurnImages(s) = <<>>

\* C8 witness: a finished turn whose model asked for query_anomalies and a plot
\* in one response, with two tool results and one image shown.
C8_Witness ==
    \E s \in Sessions :
        LET m == TurnMessages(s)
        IN  /\ Shown(s)
            /\ Len(TurnImages(s)) = 1
            /\ \E i \in 1..Len(m) :
                /\ Len(m[i].tool_calls) = 2
                /\ {m[i].tool_calls[1].name, m[i].tool_calls[2].name} =
                        {"query_anomalies", "update_analog_sensor_plot_for_user"}
                /\ m[i + 1].status = "success" /\ m[i + 2].status = "success"

\* C9: once the first response of a turn carries no tool call, the run is at
\* END having executed retrieve and assistant, once each, and nothing else.
C9_NoToolTurnIsRetrieveAssistantDone ==
    \A s \in Sessions :
        LET m == TurnMessages(s)
        IN  (m # <<>> /\ m[1].type = "ai" /\ m[1].tool_calls = <<>>) =>
                /\ trace[s] = <<"retrieve", "assistant">>
                /\ pc[s] = "done" \/ Shown(s)

\* C9 witness: a run at END whose only response carries no tool call.
C9_Witness ==
    \E s \in Sessions :
        /\ pc[s] = "done"
        /\ Len(TurnMessages(s)) = 1
        /\ TurnMessages(s)[1].tool_calls = <<>>

\* C10: a tools step over a response with N calls appends exactly N tool
\* results to the history it found, the i-th carrying the identifier of the
\* i-th call, and only then is the assistant node due.
C10_ResultsInCallOrder ==
    [][\A s \in Sessions :
        LET calls == Last(state[s].messages).tool_calls
            before == Len(state[s].messages)
        IN  StepsOut(s, "tools") =>
                /\ Len(state'[s].messages) = before + Len(calls)
                /\ SubSeq(state'[s].messages, 1, before) = state[s].messages
                /\ \A i \in 1..Len(calls) :
                    /\ state'[s].messages[before + i].type = "tool"
                    /\ state'[s].messages[before + i].tool_call_id = calls[i].id
                /\ pc'[s] \in {"assistant", "idle"}]_vars

\* C10 witness: after a round of two plot calls the results stand in call
\* order although the first call completed last (its path is the one the
\* script recorded).
C10_Witness ==
    \E s \in Sessions :
        LET m == state[s].messages
        IN  /\ pc[s] = "assistant"
            /\ Len(m) >= 3
            /\ Len(m[Len(m) - 2].tool_calls) = 2
            /\ m[Len(m) - 1].tool_call_id = m[Len(m) - 2].tool_calls[1].id
            /\ m[Len(m)].tool_call_id = m[Len(m) - 2].tool_calls[2].id
            /\ current_img_path[s] = m[Len(m) - 1].content

\* Session s executes node n as one step of its run.
NodeStep(s, n) ==
    pc[s] = n /\ trace'[s] = Append(trace[s], n)

\* The history of s before the step is a prefix of its history after it,
\* longer by `added` entries.
Appends(s, added) ==
    /\ Len(state'[s].messages) = Len(state[s].messages) + added
    /\ SubSeq(state'[s].messages, 1, Len(state[s].messages)) =
            state[s].messages

====
